---- MODULE Spec2Model ----
(***************************************************************************)
(* Model of texar/torch/run/executor_utils.py: the registry normalizer     *)
(* (_to_dict, to_dict, to_metric_dict) and the snapshot comparator         *)
(* (MetricList).                                                           *)
(*                                                                         *)
(* Strings are TLA+ strings, f-strings are string concatenation (\o) and   *)
(* str(int) is ToString.  An OrderedDict is a sequence of <<key, value>>   *)
(* pairs with pairwise different keys, in insertion order.                 *)
(***************************************************************************)
EXTENDS Integers, Sequences, FiniteSets, TLC

VARIABLES
    fn,            \* which public function was called: "to_dict" | "to_metric_dict"
    ds,            \* the spec argument (xs / metrics) as passed by the caller
    default_name,  \* to_dict's default_name argument (None or a string)
    pc,            \* position of the call
    xs,            \* _to_dict: the list iterated over
    idx,           \* _to_dict: number of loop iterations done (enumerate index)
    ret_dict,      \* _to_dict: the OrderedDict under construction
    counter,       \* _to_dict: the Counter of names seen
    result,        \* value handed back to the caller, if any
    err,           \* exception raised to the caller, if any
    x,             \* MetricList: first snapshot
    y,             \* MetricList: second operand of a comparison
    call           \* MetricList: the last comparison performed and its outcome

vars == <<fn, ds, default_name, pc, xs, idx, ret_dict, counter, result, err,
          x, y, call>>

normVars == <<fn, ds, default_name, pc, xs, idx, ret_dict, counter, result, err>>

cmpVars == <<x, y, call>>

-----------------------------------------------------------------------------
(* Bounds of the model *)

MaxItems == 3

MaxMetrics == 2

MaxVal == 2

-----------------------------------------------------------------------------
(* Python values *)

None == "<None>"

NoAttr == "<no attribute>"

\* Two Metric instances and one object that is not a Metric.
Metric1 == [cls |-> "Accuracy", isMetric |-> TRUE, pred_name |-> "p", label_name |-> None]

Metric2 == [cls |-> "Accuracy", isMetric |-> TRUE, pred_name |-> "q", label_name |-> "l"]

NotAMetric == [cls |-> "str", isMetric |-> FALSE, pred_name |-> NoAttr, label_name |-> NoAttr]

ItemValues == {Metric1, Metric2, NotAMetric}

\* Explicit names a caller pairs items with, per public function.
ExplicitNames(f) == IF f = "to_dict" THEN {"a", "a.1"} ELSE {"Accuracy", "Accuracy_p"}

DefaultNames == {None, "a"}

\* A list element: a bare value, or a (name, value) tuple.
Bare(v) == [tuple |-> FALSE, name |-> None, value |-> v]

Pair(n, v) == [tuple |-> TRUE, name |-> n, value |-> v]

Elements(f) == {Bare(v) : v \in ItemValues} \cup {Pair(n, v) : n \in ExplicitNames(f), v \in ItemValues}

SeqsUpTo(S, n) == UNION {[1..k -> S] : k \in 0..n}

\* The entries of a keyed mapping: (key, value) tuples with pairwise different keys.
DictEntries(f) ==
    {s \in SeqsUpTo({Pair(n, v) : n \in ExplicitNames(f), v \in ItemValues}, MaxItems) :
        \A i, j \in DOMAIN s : s[i].name = s[j].name => i = j}

\* OptionalDict[T]: None, a single item, a list of items, a dict, an OrderedDict.
Specs(f) ==
    {[kind |-> "None", items |-> <<>>]}
    \cup {[kind |-> "single", items |-> <<e>>] : e \in Elements(f)}
    \cup {[kind |-> "list", items |-> s] : s \in SeqsUpTo(Elements(f), MaxItems)}
    \cup {[kind |-> k, items |-> s] : k \in {"dict", "OrderedDict"}, s \in DictEntries(f)}

-----------------------------------------------------------------------------
(* OrderedDict *)

EmptyDict == <<>>

Keys(d) == {d[j][1] : j \in DOMAIN d}

DictValues(d) == {d[j][2] : j \in DOMAIN d}

GetItem(d, k) == d[CHOOSE j \in DOMAIN d : d[j][1] = k][2]

\* d[k] = v : an existing key keeps its position, a new key goes to the end.
SetItem(d, k, v) ==
    IF k \in Keys(d)
    THEN [j \in DOMAIN d |-> IF d[j][1] = k THEN <<k, v>> ELSE d[j]]
    ELSE Append(d, <<k, v>>)

\* del d[k]
DelItem(d, k) == SelectSeq(d, LAMBDA e : e[1] # k)

\* A copy that does not keep the order of ds.
ReversedCopy(items) == [j \in DOMAIN items |-> <<items[Len(items) + 1 - j].name, items[Len(items) + 1 - j].value>>]

\* OrderedDict(ds): a new mapping with the entries of ds in ds's order.
OrderedDictCopy(items) == [j \in DOMAIN items |-> <<items[j].name, items[j].value>>]

\* counter.update([name])
CounterUpdate(c, name) ==
    IF name \in DOMAIN c THEN [c EXCEPT ![name] = @ + 1] ELSE c @@ (name :> 1)

-----------------------------------------------------------------------------
(* Naming policies *)

\* A numbering that starts at 0 instead of 1.
to_dict_unambiguous_off_by_one(name, item, cnt) == name \o "." \o ToString(cnt - 1)

to_dict_unambiguous_name_fn(name, item, cnt) == name \o "." \o ToString(cnt)

to_dict_default_name_fn(i, item) ==
    IF default_name # None THEN default_name ELSE ToString(i)

to_metric_dict_unambiguous_name_fn(name, metric, cnt) ==
    LET new_name == name \o "_" \o metric.pred_name
    IN  IF metric.label_name # None
        THEN new_name \o "_" \o metric.label_name
        ELSE new_name

to_metric_dict_default_name_fn(i, metric) == metric.cls

unambiguous_name_fn(name, item, cnt) ==
    IF fn = "to_dict"
    THEN to_dict_unambiguous_name_fn(name, item, cnt)
    ELSE to_metric_dict_unambiguous_name_fn(name, item, cnt)

default_name_fn(i, item) ==
    IF fn = "to_dict"
    THEN to_dict_default_name_fn(i, item)
    ELSE to_metric_dict_default_name_fn(i, item)

\* to_metric_dict's unambiguous_name_fn reads metric.pred_name and
\* metric.label_name: an object without them raises AttributeError.
NamingRaises(item) == fn = "to_metric_dict" /\ item.pred_name = NoAttr

\* The name line 61-64 gives the element at 0-based position i of xs.
NameOf(s, i) ==
    IF s[i + 1].tuple THEN s[i + 1].name ELSE default_name_fn(i, s[i + 1].value)

-----------------------------------------------------------------------------
(* MetricList snapshots *)

\* Metric classes: the class name stands for type(metric).
MetricClasses == {"Accuracy", "Banded"}

CapturedValues == 0..MaxVal

\* Metric.better(cur, prev): "True", "False" or "None" (a tie).
\* Accuracy is higher-is-better on the value; Banded is higher-is-better on
\* the band of the value only, so that two different values of one band tie.
better(cls, cur, prev) ==
    LET a == IF cls = "Banded" THEN cur \div 2 ELSE cur
        b == IF cls = "Banded" THEN prev \div 2 ELSE prev
    IN  IF a > b THEN "True" ELSE IF a < b THEN "False" ELSE "None"

MetricName(j) == "m" \o ToString(j)

\* Registries of the first snapshot: keys m1, m2, ... with any classes.
Registries ==
    UNION {{[j \in 1..n |-> <<MetricName(j), c[j]>>] : c \in [1..n -> MetricClasses]} :
            n \in 0..MaxMetrics}

\* Registries of the second operand: the same registry, or one that differs
\* from it in length (a strict prefix), in a key, in a class or in the order.
Variants(reg) ==
    {reg}
    \cup {SubSeq(reg, 1, Len(reg) - 1) : n \in {k \in {Len(reg)} : k > 0}}
    \cup {[reg EXCEPT ![p] = <<"other", reg[p][2]>>] : p \in DOMAIN reg}
    \cup {[reg EXCEPT ![p] = <<reg[p][1], c>>] : p \in DOMAIN reg, c \in MetricClasses}
    \cup {[reg EXCEPT ![p] = reg[p + 1], ![p + 1] = reg[p]] : p \in (DOMAIN reg) \ {Len(reg)}}

\* MetricList(metrics): values = {name: metric.value() for name, metric in metrics.items()}
Snapshots(regs) ==
    UNION {{[isMetricList |-> TRUE, metrics |-> reg, values |-> v] :
                v \in [Keys(reg) -> CapturedValues]} : reg \in regs}

NotAMetricList == [isMetricList |-> FALSE, metrics |-> <<>>, values |-> <<>>]

Returns(b, seen) == [raised |-> "", value |-> b, consulted |-> seen]

Raises(e, seen) == [raised |-> e, value |-> FALSE, consulted |-> seen]

Min(a, b) == IF a < b THEN a ELSE b

\* MetricList._compare_metrics: TRUE iff it raises ValueError.
_compare_metrics(self, other) ==
    \/ ~other.isMetricList
    \/ \E j \in 1..Min(Len(self.metrics), Len(other.metrics)) :
          \/ self.metrics[j][1] # other.metrics[j][1]
          \/ self.metrics[j][2] # other.metrics[j][2]

\* all(self.values[name] == other.values[name] for name in self.metrics),
\* evaluated from position j on; a missing key raises KeyError.
RECURSIVE AllEqualFrom(_, _, _)
AllEqualFrom(self, other, j) ==
    IF j > Len(self.metrics) THEN Returns(TRUE, <<>>)
    ELSE LET name == self.metrics[j][1]
         IN  IF name \notin DOMAIN self.values \/ name \notin DOMAIN other.values
             THEN Raises("KeyError", <<>>)
             ELSE IF self.values[name] # other.values[name]
             THEN Returns(FALSE, <<>>)
             ELSE AllEqualFrom(self, other, j + 1)

\* An equality that uses any() where the code uses all().
RECURSIVE AnyEqualFrom(_, _, _)
AnyEqualFrom(self, other, j) ==
    IF j > Len(self.metrics) THEN Returns(Len(self.metrics) = 0, <<>>)
    ELSE LET name == self.metrics[j][1]
         IN  IF name \notin DOMAIN self.values \/ name \notin DOMAIN other.values
             THEN Raises("KeyError", <<>>)
             ELSE IF self.values[name] = other.values[name]
             THEN Returns(TRUE, <<>>)
             ELSE AnyEqualFrom(self, other, j + 1)

EqAny(self, other) ==
    IF _compare_metrics(self, other) THEN Raises("ValueError", <<>>)
    ELSE AnyEqualFrom(self, other, 1)

\* MetricList.__eq__
__eq__(self, other) ==
    IF _compare_metrics(self, other) THEN Raises("ValueError", <<>>)
    ELSE AllEqualFrom(self, other, 1)

\* The loop of __gt__ from position j on; seen lists the metrics whose
\* better() has been called so far.
RECURSIVE BetterFrom(_, _, _, _)
BetterFrom(self, other, j, seen) ==
    IF j > Len(self.metrics) THEN Returns(FALSE, seen)
    ELSE LET name == self.metrics[j][1]
         IN  IF name \notin DOMAIN self.values \/ name \notin DOMAIN other.values
             THEN Raises("KeyError", seen)
             ELSE LET cmp == better(self.metrics[j][2], self.values[name], other.values[name])
                  IN  IF cmp # "None"
                      THEN Returns(cmp = "True", Append(seen, name))
                      ELSE BetterFrom(self, other, j + 1, Append(seen, name))

\* A __gt__ that lets the last non-tie metric decide.
RECURSIVE BetterLastFrom(_, _, _, _, _)
BetterLastFrom(self, other, j, seen, sofar) ==
    IF j > Len(self.metrics) THEN Returns(sofar, seen)
    ELSE LET name == self.metrics[j][1]
         IN  IF name \notin DOMAIN self.values \/ name \notin DOMAIN other.values
             THEN Raises("KeyError", seen)
             ELSE LET cmp == better(self.metrics[j][2], self.values[name], other.values[name])
                  IN  BetterLastFrom(self, other, j + 1, Append(seen, name),
                                     IF cmp = "None" THEN sofar ELSE cmp = "True")

GtLastDecides(self, other) ==
    IF _compare_metrics(self, other) THEN Raises("ValueError", <<>>)
    ELSE BetterLastFrom(self, other, 1, <<>>, FALSE)

\* MetricList.__gt__
__gt__(self, other) ==
    IF _compare_metrics(self, other) THEN Raises("ValueError", <<>>)
    ELSE BetterFrom(self, other, 1, <<>>)

\* A derived __lt__ that forgets the equality test.
LtNotGt(self, other) ==
    LET gt == __gt__(self, other)
    IN  IF gt.raised # "" THEN gt ELSE Returns(~gt.value, gt.consulted)

\* __lt__ as functools.total_ordering derives it from __gt__ and __eq__:
\* not (self > other) and self != other, with != the negation of __eq__.
__lt__(self, other) ==
    LET gt == __gt__(self, other)
    IN  IF gt.raised # "" THEN gt
        ELSE IF gt.value THEN Returns(FALSE, gt.consulted)
        ELSE LET eq == __eq__(self, other)
             IN  IF eq.raised # "" THEN Raises(eq.raised, gt.consulted)
                 ELSE Returns(~eq.value, gt.consulted)

NoCall == [op |-> "none", self |-> "x", out |-> Returns(FALSE, <<>>)]

Operand(who) == IF who = "x" THEN x ELSE y

Other(who) == IF who = "x" THEN y ELSE x

-----------------------------------------------------------------------------
(* The calls to_dict(xs, default_name) and to_metric_dict(metrics) *)

NoResult == [returned |-> FALSE, value |-> EmptyDict]

Returned(d) == [returned |-> TRUE, value |-> d]

NormIdle ==
    /\ fn = "to_dict" /\ ds = [kind |-> "None", items |-> <<>>] /\ default_name = None
    /\ pc = "idle" /\ xs = <<>> /\ idx = 0 /\ ret_dict = EmptyDict /\ counter = <<>>
    /\ result = NoResult /\ err = ""

CmpIdle == x = NotAMetricList /\ y = NotAMetricList /\ call = NoCall

\* The state on entry to to_dict / to_metric_dict, for every argument.
Init ==
    /\ fn \in {"to_dict", "to_metric_dict"}
    /\ ds \in Specs(fn)
    /\ default_name \in (IF fn = "to_dict" THEN DefaultNames ELSE {None})
    /\ pc = IF fn = "to_dict" THEN "_to_dict" ELSE "to_metric_dict"
    /\ xs = <<>> /\ idx = 0 /\ ret_dict = EmptyDict /\ counter = <<>>
    /\ result = NoResult /\ err = ""
    /\ CmpIdle

Raise(e) == pc' = "raised" /\ err' = e /\ result' = NoResult

\* _to_dict returns d: to_dict hands it on (line 87), to_metric_dict keeps it
\* as metric_dict (line 102) and goes on to validate it.
ReturnFrom_to_dict(d) ==
    /\ ret_dict' = d
    /\ IF fn = "to_dict"
       THEN pc' = "done" /\ result' = Returned(d)
       ELSE pc' = "validate" /\ result' = result
    /\ err' = err

\* to_metric_dict, lines 100-102: a dict that is not an OrderedDict is rejected.
CheckOrdered ==
    /\ pc = "to_metric_dict"
    /\ IF ds.kind = "dict"
       THEN Raise("ValueError")
       ELSE pc' = "_to_dict" /\ UNCHANGED <<result, err>>
    /\ UNCHANGED <<fn, ds, default_name, xs, idx, ret_dict, counter>>
    /\ UNCHANGED cmpVars

\* _to_dict, lines 50-59.
Dispatch ==
    /\ pc = "_to_dict"
    /\ IF ds.kind = "None"
       THEN ReturnFrom_to_dict(EmptyDict) /\ xs' = xs
       ELSE IF ds.kind \in {"dict", "OrderedDict"}
       THEN ReturnFrom_to_dict(OrderedDictCopy(ds.items)) /\ xs' = xs
       ELSE /\ xs' = ds.items
            /\ ret_dict' = EmptyDict
            /\ pc' = "loop"
            /\ UNCHANGED <<result, err>>
    /\ idx' = 0 /\ counter' = <<>>
    /\ UNCHANGED <<fn, ds, default_name>>
    /\ UNCHANGED cmpVars

\* One iteration of the loop of _to_dict, lines 60-74.
LoopStep ==
    /\ pc = "loop" /\ idx < Len(xs)
    /\ LET name == NameOf(xs, idx)
           item == xs[idx + 1].value
       IN  IF name \notin DOMAIN counter
           THEN /\ ret_dict' = SetItem(ret_dict, name, item)
                /\ counter' = CounterUpdate(counter, name)
                /\ idx' = idx + 1
                /\ UNCHANGED <<pc, result, err>>
           ELSE LET cnt == counter[name]
                IN  IF cnt = 1 /\ name \notin Keys(ret_dict)
                    THEN Raise("KeyError") /\ UNCHANGED <<ret_dict, counter, idx>>
                    ELSE IF cnt = 1 /\ NamingRaises(GetItem(ret_dict, name))
                    THEN Raise("AttributeError") /\ UNCHANGED <<ret_dict, counter, idx>>
                    ELSE LET renamed ==
                                 IF cnt = 1
                                 THEN LET prev_item == GetItem(ret_dict, name)
                                      IN  DelItem(SetItem(ret_dict,
                                                          unambiguous_name_fn(name, prev_item, 1),
                                                          prev_item),
                                                  name)
                                 ELSE ret_dict
                         IN  IF NamingRaises(item)
                             THEN /\ Raise("AttributeError")
                                  /\ ret_dict' = renamed
                                  /\ UNCHANGED <<counter, idx>>
                             ELSE /\ ret_dict' = SetItem(renamed,
                                                         unambiguous_name_fn(name, item, cnt + 1),
                                                         item)
                                  /\ counter' = CounterUpdate(counter, name)
                                  /\ idx' = idx + 1
                                  /\ UNCHANGED <<pc, result, err>>
    /\ UNCHANGED <<fn, ds, default_name, xs>>
    /\ UNCHANGED cmpVars

\* The loop is exhausted: return ret_dict, line 75.
LoopExit ==
    /\ pc = "loop" /\ idx = Len(xs)
    /\ ReturnFrom_to_dict(ret_dict)
    /\ UNCHANGED <<fn, ds, default_name, xs, idx, counter>>
    /\ UNCHANGED cmpVars

\* A validation that looks at the first value only.
ValidateFirstOnly ==
    /\ pc = "validate"
    /\ IF Len(ret_dict) > 0 /\ ~ret_dict[1][2].isMetric
       THEN Raise("ValueError")
       ELSE pc' = "done" /\ result' = Returned(ret_dict) /\ err' = err
    /\ UNCHANGED <<fn, ds, default_name, xs, idx, ret_dict, counter>>
    /\ UNCHANGED cmpVars

\* to_metric_dict, lines 104-108: every value must be a Metric.
Validate ==
    /\ pc = "validate"
    /\ IF \E v \in DictValues(ret_dict) : ~v.isMetric
       THEN Raise("ValueError")
       ELSE pc' = "done" /\ result' = Returned(ret_dict) /\ err' = err
    /\ UNCHANGED <<fn, ds, default_name, xs, idx, ret_dict, counter>>
    /\ UNCHANGED cmpVars

Next == CheckOrdered \/ Dispatch \/ LoopStep \/ LoopExit \/ Validate

Spec == Init /\ [][Next]_vars

-----------------------------------------------------------------------------
(* Comparisons of two snapshots *)

\* Two snapshots as MetricList(metrics) builds them; the second operand may
\* also be an object that is no MetricList.
InitML ==
    /\ NormIdle
    /\ x \in Snapshots(Registries)
    /\ y \in Snapshots(Variants(x.metrics)) \cup {NotAMetricList}
    /\ call = NoCall

\* The receiver of a comparison is a MetricList; no comparison was made yet.
CanCompare(who) == call = NoCall /\ Operand(who).isMetricList

\* self == other
Eq ==
    /\ \E who \in {"x", "y"} :
          /\ CanCompare(who)
          /\ call' = [op |-> "eq", self |-> who, out |-> __eq__(Operand(who), Other(who))]
    /\ UNCHANGED <<x, y>>
    /\ UNCHANGED normVars

\* self > other
Gt ==
    /\ \E who \in {"x", "y"} :
          /\ CanCompare(who)
          /\ call' = [op |-> "gt", self |-> who, out |-> __gt__(Operand(who), Other(who))]
    /\ UNCHANGED <<x, y>>
    /\ UNCHANGED normVars

\* self < other
Lt ==
    /\ \E who \in {"x", "y"} :
          /\ CanCompare(who)
          /\ call' = [op |-> "lt", self |-> who, out |-> __lt__(Operand(who), Other(who))]
    /\ UNCHANGED <<x, y>>
    /\ UNCHANGED normVars

NextML == Eq \/ Gt \/ Lt

SpecML == InitML /\ [][NextML]_vars

-----------------------------------------------------------------------------
(* Properties of the registry normalizer, checked under Spec *)

\* _to_dict has returned: ret_dict is the registry it returned.
ToDictReturned == pc \in {"validate", "done"}

\* C1: for a list spec, under both naming policies, the returned registry
\* has no duplicate keys and exactly as many entries as the list has items.
C1_NoItemLost ==
    (pc = "done" /\ ds.kind = "list") =>
        /\ Cardinality(Keys(result.value)) = Len(result.value)
        /\ Len(result.value) = Len(ds.items)

\* C2: whenever two items of a list spec get the same name n, the returned
\* registry stores the first under a key k1 and the second under a key k2
\* with k1 # n, k2 # n, k1 # k2, and n is not a key.
C2_CollisionRenaming ==
    (pc = "done" /\ ds.kind = "list") =>
        \A i, j \in 0..(Len(xs) - 1) :
            (i < j /\ NameOf(xs, i) = NameOf(xs, j)) =>
                LET n == NameOf(xs, i)
                    d == result.value
                IN  /\ n \notin Keys(d)
                    /\ \E k1, k2 \in Keys(d) :
                          /\ k1 # n /\ k2 # n /\ k1 # k2
                          /\ GetItem(d, k1) = xs[i + 1].value
                          /\ GetItem(d, k2) = xs[j + 1].value

\* C7: a keyed mapping is returned by _to_dict with the same keys, values and
\* order, whatever the keys look like; None gives the empty registry; the
\* argument is never changed.
C7_MappingPassedThrough ==
    /\ [](ToDictReturned =>
            /\ ds.kind \in {"dict", "OrderedDict"} =>
                  /\ Len(ret_dict) = Len(ds.items)
                  /\ \A j \in DOMAIN ds.items :
                        /\ ret_dict[j][1] = ds.items[j].name
                        /\ ret_dict[j][2] = ds.items[j].value
            /\ ds.kind = "None" => ret_dict = <<>>)
    /\ [][ds' = ds]_vars

C7_Witness ==
    /\ pc = "done" /\ fn = "to_dict" /\ ds.kind = "dict"
    /\ Len(ds.items) = 2 /\ ds.items[1].name = "a.1" /\ ds.items[2].name = "a"
    /\ ds.items[1].value # ds.items[2].value
    /\ result = Returned(ret_dict)

\* C8: to_metric_dict is all-or-nothing.  (a) A dict that is not an
\* OrderedDict raises ValueError before any normalization.  (b) It returns a
\* registry only if every value of the normalized registry is a Metric, and
\* after raising it has returned nothing.  The argument is never changed.
C8_AllOrNothing ==
    /\ [](fn = "to_metric_dict" =>
            /\ ds.kind = "dict" =>
                  /\ pc \in {"to_metric_dict", "raised"}
                  /\ pc = "raised" => err = "ValueError"
                  /\ xs = <<>> /\ idx = 0 /\ ret_dict = EmptyDict /\ counter = <<>>
            /\ result.returned =>
                  /\ pc = "done" /\ err = ""
                  /\ result.value = ret_dict
                  /\ \A v \in DictValues(ret_dict) : v.isMetric
            /\ pc = "done" => result.returned
            /\ pc = "raised" => (~result.returned /\ err # ""))
    /\ [][ds' = ds]_vars

C8_Witness ==
    /\ fn = "to_metric_dict" /\ ds.kind = "list"
    /\ pc = "raised" /\ err = "ValueError" /\ ~result.returned
    /\ Len(ret_dict) = 2 /\ ret_dict[1][2].isMetric /\ ~ret_dict[2][2].isMetric

\* C9: under to_dict, a list of k >= 2 items that all get the same name n
\* is returned as n.1, n.2, ..., n.k in that order, item i under n.i.
C9_SameNameNumbered ==
    (/\ fn = "to_dict" /\ ds.kind = "list" /\ pc = "done"
     /\ Len(xs) >= 2
     /\ \A i \in 0..(Len(xs) - 1) : NameOf(xs, i) = NameOf(xs, 0)) =>
        /\ Len(result.value) = Len(xs)
        /\ \A i \in 1..Len(xs) :
              result.value[i] = <<NameOf(xs, 0) \o "." \o ToString(i), xs[i].value>>

C9_Witness ==
    /\ fn = "to_dict" /\ ds.kind = "list" /\ pc = "done" /\ default_name = "a"
    /\ Len(xs) = 3 /\ \A i \in 1..3 : ~xs[i].tuple
    /\ Keys(result.value) = {"a.1", "a.2", "a.3"}

\* C10: a loop iteration that meets a name n for the second time removes the
\* first occurrence from key n and appends it under unambiguous_name_fn(n,
\* prev, 1), immediately followed by the second occurrence; an iteration that
\* meets n for the third or a later time appends exactly one entry and leaves
\* the existing entries as they are.
C10_RenameOnSecondOccurrence ==
    [][(pc = "loop" /\ pc' = "loop" /\ idx' = idx + 1
        /\ NameOf(xs, idx) \in DOMAIN counter) =>
          LET n == NameOf(xs, idx)
              item == xs[idx + 1].value
              cnt == counter[n]
          IN  IF cnt = 1
              THEN LET prev == GetItem(ret_dict, n)
                   IN  ret_dict' = DelItem(ret_dict, n)
                                   \o << <<unambiguous_name_fn(n, prev, 1), prev>>,
                                         <<unambiguous_name_fn(n, item, 2), item>> >>
              ELSE ret_dict' = Append(ret_dict, <<unambiguous_name_fn(n, item, cnt + 1), item>>)
      ]_vars

-----------------------------------------------------------------------------
(* Properties of the snapshot comparator, checked under SpecML *)

\* Both operands are MetricLists over the same registry: the same keys with
\* the same metric classes in the same order.
Compatible == x.isMetricList /\ y.isMetricList /\ x.metrics = y.metrics

Self == Operand(call.self)

Peer == Other(call.self)

\* better() of the metric at position j, for the comparison self > other.
BetterAt(self, other, j) ==
    better(self.metrics[j][2], self.values[self.metrics[j][1]], other.values[self.metrics[j][1]])

NonTies(self, other) == {j \in DOMAIN self.metrics : BetterAt(self, other, j) # "None"}

First(S) == CHOOSE j \in S : \A k \in S : j <= k

\* C3: == and > on two MetricLists whose registries differ (in the keys,
\* their order, a metric class or the number of metrics) raise ValueError.
C3_IncompatibleRaises ==
    (/\ call.op \in {"eq", "gt"}
     /\ x.isMetricList /\ y.isMetricList
     /\ x.metrics # y.metrics) =>
        call.out.raised = "ValueError"

\* C4: over one registry, x > y is better() of the first metric that does not
\* tie, no later metric is consulted, and it is false if all metrics tie.
C4_Lexicographic ==
    (call.op = "gt" /\ Compatible) =>
        LET nonTies == NonTies(Self, Peer)
            names == [j \in DOMAIN Self.metrics |-> Self.metrics[j][1]]
        IN  /\ call.out.raised = ""
            /\ IF nonTies = {}
               THEN ~call.out.value /\ call.out.consulted = names
               ELSE /\ call.out.value = (BetterAt(Self, Peer, First(nonTies)) = "True")
                    /\ call.out.consulted = SubSeq(names, 1, First(nonTies))

C4_Witness ==
    /\ call.op = "gt" /\ call.self = "x" /\ Compatible
    /\ Len(x.metrics) = 2
    /\ BetterAt(x, y, 1) = "None" /\ BetterAt(x, y, 2) = "True"
    /\ call.out.value /\ Len(call.out.consulted) = 2

ExactlyOne(a, b, c) == (a /\ ~b /\ ~c) \/ (~a /\ b /\ ~c) \/ (~a /\ ~b /\ c)

AtMostOne(a, b, c) == ~(a /\ b) /\ ~(a /\ c) /\ ~(b /\ c)

\* The assumption of C5 on Metric.better: antisymmetric, with symmetric ties.
BetterIsAntisymmetric ==
    \A c \in MetricClasses : \A a, b \in CapturedValues :
        /\ better(c, a, b) = "True" <=> better(c, b, a) = "False"
        /\ better(c, a, b) = "None" <=> better(c, b, a) = "None"

\* C5: with better() antisymmetric and its ties symmetric, over one registry
\* exactly one of x > y, x == y, y > x holds, and x < y holds exactly when
\* y > x holds.
C5_TotalOrder ==
    (call.op = "lt" /\ Compatible /\ BetterIsAntisymmetric) =>
        /\ ExactlyOne(__gt__(Self, Peer).value, __eq__(Self, Peer).value,
                      __gt__(Peer, Self).value)
        /\ call.out.value = __gt__(Peer, Self).value

\* Every metric of the registry ties only on equal values, for this pair.
TiesOnlyOnEqual ==
    \A j \in DOMAIN x.metrics :
        BetterAt(x, y, j) = "None" => x.values[x.metrics[j][1]] = y.values[x.metrics[j][1]]

\* C5, amended: with better() antisymmetric and its ties symmetric, over one
\* registry at most one of x > y, x == y, y > x holds and x < y holds exactly
\* when neither x > y nor x == y does; if moreover every better() ties only on
\* equal values, exactly one of the three holds and x < y holds exactly when
\* y > x holds.
C5_Amended ==
    (call.op = "lt" /\ Compatible /\ BetterIsAntisymmetric) =>
        LET gt == __gt__(Self, Peer).value
            eq == __eq__(Self, Peer).value
            rgt == __gt__(Peer, Self).value
        IN  /\ call.out.raised = ""
            /\ AtMostOne(gt, eq, rgt)
            /\ call.out.value = (~gt /\ ~eq)
            /\ TiesOnlyOnEqual => (ExactlyOne(gt, eq, rgt) /\ call.out.value = rgt)

C5_Witness ==
    /\ call.op = "lt" /\ call.self = "x" /\ Compatible /\ BetterIsAntisymmetric
    /\ Len(x.metrics) = 2 /\ TiesOnlyOnEqual
    /\ x.values["m1"] = y.values["m1"] /\ x.values["m2"] # y.values["m2"]
    /\ call.out.value /\ __gt__(y, x).value

\* C6: over one registry, x == y is true exactly when every key has equal
\* captured values in x and y; it is reflexive and symmetric.
C6_Equality ==
    (call.op = "eq" /\ Compatible) =>
        /\ call.out.raised = ""
        /\ call.out.value = (\A k \in Keys(Self.metrics) : Self.values[k] = Peer.values[k])
        /\ call.out.value = __eq__(Peer, Self).value
        /\ x = y => call.out.value

C6_Witness ==
    /\ call.op = "eq" /\ call.self = "x" /\ Compatible
    /\ Len(x.metrics) = 2
    /\ x.values["m1"] = y.values["m1"] /\ x.values["m2"] # y.values["m2"]
    /\ ~call.out.value /\ call.out.raised = ""

====
